---- MODULE Spec2Model ----
(***************************************************************************)
(* A model of the validation engine of src/src/validator.js: the rule      *)
(* specification parser (_parseRules, _extractRuleAndRuleValue), the        *)
(* synchronous run (check), the asynchronous run (checkAsync) and the       *)
(* public entry points passes / fails.                                      *)
(*                                                                         *)
(* Strings are sequences of one-character strings, so that indexOf, split  *)
(* and join are computed the way the JavaScript built-ins compute them.    *)
(* The collaborators required at lines 2-5 (./rules, ./errors, ./async,    *)
(* ./lang) are modelled from their documented contracts.                   *)
(***************************************************************************)
EXTENDS Integers, Sequences, FiniteSets, TLC

VARIABLES
    rawRules,      \* the `rules` argument of the constructor, in enumeration order
    input,         \* this.input: attribute -> value
    rules,         \* this.rules: parsed rules, in enumeration order
    hasAsync,      \* this.hasAsync
    errors,        \* this.errors: attribute -> sequence of messages
    errorCount,    \* this.errorCount
    pc,            \* "new" | "idle" | "check" | "checkAsync"
    run,           \* the call in progress or last made (entry point, callbacks, cursor, snapshot)
    resolvers,     \* asyncResolvers of the last checkAsync run: its slots
    firing,        \* asyncResolvers.firing
    calls,         \* what the last run invoked: handlers, callbacks, predicates
    result,        \* what the last call returned or threw
    nruns,         \* number of calls made on this validator
    asyncRules     \* the registry: the names registered as asynchronous

vars == <<rawRules, input, rules, hasAsync, errors, errorCount, pc, run,
          resolvers, firing, calls, result, nruns, asyncRules>>

(***************************************************************************)
(* Bounds.                                                                 *)
(***************************************************************************)
MaxLen == 4        \* longest rule string explored by the parser specification
MaxRuns == 2       \* calls of check/checkAsync/passes/fails on one validator
MaxRepeats == 1    \* further calls of one completion callback after the first

(***************************************************************************)
(* Strings.                                                                *)
(***************************************************************************)
Colon == ":"
Pipe == "|"

\* The option type stands for a JavaScript property that may be undefined.
None == <<>>
Some(x) == <<x>>

\* String.prototype.indexOf, 1-based; 0 when absent (JavaScript's -1).
RECURSIVE IndexFrom(_, _, _)
IndexFrom(s, c, i) ==
    IF i > Len(s) THEN 0
    ELSE IF s[i] = c THEN i
    ELSE IndexFrom(s, c, i + 1)

IndexOf(s, c) == IndexFrom(s, c, 1)

\* String.prototype.split with a one-character separator.
RECURSIVE Split(_, _)
Split(s, c) ==
    LET i == IndexOf(s, c)
    IN IF i = 0 THEN <<s>>
       ELSE <<SubSeq(s, 1, i - 1)>> \o Split(SubSeq(s, i + 1, Len(s)), c)

\* Array.prototype.join with a one-character separator.
RECURSIVE Join(_, _)
Join(a, c) ==
    IF Len(a) = 0 THEN <<>>
    ELSE IF Len(a) = 1 THEN a[1]
    ELSE a[1] \o <<c>> \o Join(Tail(a), c)

(***************************************************************************)
(* The parser.                                                             *)
(***************************************************************************)
\* A plausible slip: the value is the second segment only.
ExtractSecondSegmentOnly(ruleString) ==
    IF IndexOf(ruleString, Colon) > 0
    THEN LET ruleArray == Split(ruleString, Colon)
         IN [name |-> ruleArray[1], value |-> Some(ruleArray[2])]
    ELSE [name |-> ruleString, value |-> None]

_extractRuleAndRuleValue(ruleString) ==
    IF IndexOf(ruleString, Colon) > 0
    THEN LET ruleArray == Split(ruleString, Colon)
         IN [name |-> ruleArray[1], value |-> Some(Join(Tail(ruleArray), Colon))]
    ELSE [name |-> ruleString, value |-> None]

\* The constructor's `rules` argument is a sequence of entries in enumeration
\* order (what `for (var attribute in rules)` visits); an entry holds either a
\* string (isString, str) or a structured list of tokens (list).
RECURSIVE ExtractAll(_)
ExtractAll(rulesArray) ==
    IF Len(rulesArray) = 0 THEN <<>>
    ELSE <<_extractRuleAndRuleValue(rulesArray[1])>> \o ExtractAll(Tail(rulesArray))

RulesArrayOf(entry) ==
    IF entry.isString THEN Split(entry.str, Pipe) ELSE entry.list

\* A plausible slip: the directives are collected with unshift instead of push.
RECURSIVE Reverse(_)
Reverse(s) ==
    IF Len(s) = 0 THEN <<>> ELSE Reverse(Tail(s)) \o <<s[1]>>

ParseRulesUnshift(rs) ==
    [i \in 1..Len(rs) |->
        [attribute |-> rs[i].attribute,
         attributeRules |-> Reverse(ExtractAll(RulesArrayOf(rs[i])))]]

_parseRules(rs) ==
    [i \in 1..Len(rs) |->
        [attribute |-> rs[i].attribute,
         attributeRules |-> ExtractAll(RulesArrayOf(rs[i]))]]

(***************************************************************************)
(* The rule registry (./rules): the built-in `required`, one synchronous   *)
(* and one asynchronous registered rule.                                   *)
(***************************************************************************)
Required == <<"r", "e", "q", "u", "i", "r", "e", "d">>
AtLeast == <<"g">>
Slow == <<"s">>
Nope == <<"x">>

Undefined == "undefined"
Values == {Undefined, "1", "2"}
Attributes == {"a", "b"}

Registered == {Required, AtLeast, Slow}

IsAsync(name) == name \in asyncRules

IsImplicit(name) == name = Required

Num(v) == IF v = "1" THEN 1 ELSE IF v = "2" THEN 2 ELSE 0

\* The registered predicate functions: `required` accepts a present value; the
\* two others accept a value that is at least their argument (no argument, or
\* one that is no number, accepts nothing).
Fn(name, inputValue, ruleValue) ==
    IF name = Required THEN inputValue # Undefined
    ELSE /\ ruleValue \in {Some(<<"1">>), Some(<<"2">>)}
         /\ inputValue # Undefined
         /\ Num(inputValue) >= Num(ruleValue[1][1])

\* `_hasAsync` as the parse loop sets it.
ParseHasAsync(parsed) ==
    \E i \in 1..Len(parsed) :
        \E j \in 1..Len(parsed[i].attributeRules) :
            IsAsync(parsed[i].attributeRules[j].name)

(***************************************************************************)
(* The message store and the error collection (./lang, ./errors).          *)
(***************************************************************************)
Render(rule) == [attribute |-> rule.attribute, name |-> rule.name, value |-> rule.value]

ErrorsAdd(errs, attribute, msg) == [errs EXCEPT ![attribute] = Append(@, msg)]

NoErrors == [at \in Attributes |-> <<>>]

RECURSIVE SumLen(_, _)
SumLen(errs, S) ==
    IF S = {} THEN 0
    ELSE LET at == CHOOSE x \in S : TRUE
         IN Len(errs[at]) + SumLen(errs, S \ {at})

TotalMessages(errs) == SumLen(errs, Attributes)

(***************************************************************************)
(* The coordinator of one asynchronous run (./async).                      *)
(***************************************************************************)
AsyncAdd(rs, rule) == Append(rs, rule)

IsAllResolved(rs) == \A i \in 1..Len(rs) : rs[i].state # "pending"

NoneFailed(rs) == \A i \in 1..Len(rs) : rs[i].state # "failed"

(***************************************************************************)
(* The engine.  The operators below transform a bundle `st` of the fields  *)
(* a handler may change; an action commits the bundle it ends with.        *)
(***************************************************************************)
St ==
    [resolvers |-> resolvers, firing |-> firing, errors |-> errors,
     errorCount |-> errorCount, calls |-> calls, result |-> result, run |-> run]

Commit(st) ==
    /\ resolvers' = st.resolvers
    /\ firing' = st.firing
    /\ errors' = st.errors
    /\ errorCount' = st.errorCount
    /\ calls' = st.calls
    /\ result' = st.result
    /\ run' = st.run

NoRun == [entry |-> "none", mode |-> "none", onPass |-> FALSE, onFail |-> FALSE, k |-> 0]

NoResult == [value |-> "none", thrown |-> "none"]

\* What a run has done so far, and what it started from.
NewCalls(errs, cnt, inp) ==
    [failsOne |-> 0, resolvedAll |-> 0, onPass |-> 0, onFail |-> 0,
     invoked |-> <<>>, skipped |-> <<>>, returnedFalse |-> 0,
     order |-> <<>>, allPassed |-> "none",
     errors0 |-> errs, errorCount0 |-> cnt, input0 |-> inp]

\* The directives in the order the two nested loops visit them.
RECURSIVE Flatten(_)
Flatten(parsed) ==
    IF Len(parsed) = 0 THEN <<>>
    ELSE [j \in 1..Len(parsed[1].attributeRules) |->
             [attribute |-> parsed[1].attribute,
              name |-> parsed[1].attributeRules[j].name,
              value |-> parsed[1].attributeRules[j].value]]
         \o Flatten(Tail(parsed))

Directives == Flatten(rules)

\* A plausible slip: the message is recorded but the counter is not advanced.
AddFailureNoCount(st, rule) ==
    [st EXCEPT !.errors = ErrorsAdd(@, rule.attribute, Render(rule))]

\* A plausible slip: the message is put at the head of the attribute's list.
AddFailureFirst(st, rule) ==
    [st EXCEPT !.errors[rule.attribute] = <<Render(rule)>> \o @,
               !.errorCount = @ + 1]

_addFailure(st, rule) ==
    [st EXCEPT !.errors = ErrorsAdd(@, rule.attribute, Render(rule)),
               !.errorCount = @ + 1]

\* A plausible slip: the per-failure handler records the failure twice.
FailsOneTwice(st, rule) ==
    _addFailure(_addFailure([st EXCEPT !.calls.failsOne = @ + 1], rule), rule)

failsOne(st, rule) ==
    _addFailure([st EXCEPT !.calls.failsOne = @ + 1], rule)

\* Calling a callback the caller did not supply is a TypeError.
CallPasses(st) ==
    IF st.run.onPass THEN [st EXCEPT !.calls.onPass = @ + 1]
    ELSE [st EXCEPT !.result.thrown = "TypeError"]

CallFails(st) ==
    IF st.run.onFail THEN [st EXCEPT !.calls.onFail = @ + 1]
    ELSE [st EXCEPT !.result.thrown = "TypeError"]

\* A plausible slip: the branches of the terminal handler are swapped.
ResolvedAllSwapped(st, allPassed) ==
    LET s1 == [st EXCEPT !.calls.resolvedAll = @ + 1,
                         !.calls.allPassed = IF allPassed THEN "true" ELSE "false"]
    IN IF allPassed THEN CallFails(s1) ELSE CallPasses(s1)

resolvedAll(st, allPassed) ==
    LET s1 == [st EXCEPT !.calls.resolvedAll = @ + 1,
                         !.calls.allPassed = IF allPassed THEN "true" ELSE "false"]
    IN IF allPassed THEN CallPasses(s1) ELSE CallFails(s1)

\* asyncResolvers.fire
AsyncFire(st) ==
    IF st.firing /\ IsAllResolved(st.resolvers)
    THEN resolvedAll(st, NoneFailed(st.resolvers))
    ELSE st

\* A slip the guard excludes: every call of resolve counts.
AsyncResolveUnguarded(st, index) ==
    LET rule == st.resolvers[index]
        s1 == [st EXCEPT !.resolvers[index].state =
                              IF rule.passes THEN "passed" ELSE "failed",
                         !.calls.returnedFalse =
                              IF rule.passes \/ rule.state # "pending" THEN @ ELSE @ + 1]
        s2 == IF rule.passes THEN s1 ELSE failsOne(s1, rule)
    IN AsyncFire(s2)

\* asyncResolvers.resolve: a slot resolves once.
AsyncResolve(st, index) ==
    LET rule == st.resolvers[index]
    IN IF rule.state # "pending" THEN st
       ELSE LET s1 == [st EXCEPT !.resolvers[index].state =
                                      IF rule.passes THEN "passed" ELSE "failed",
                                 !.calls.returnedFalse =
                                      IF rule.passes THEN @ ELSE @ + 1]
                s2 == IF rule.passes THEN s1 ELSE failsOne(s1, rule)
            IN AsyncFire(s2)

\* The completion callback handed to the predicate (line 99): it resolves the
\* slot it was made for, each time it is called.
Callback(st, resolverIndex) ==
    AsyncResolve([st EXCEPT !.resolvers[resolverIndex].called = @ + 1,
                            !.calls.order =
                                IF st.resolvers[resolverIndex].state = "pending"
                                THEN Append(@, resolverIndex) ELSE @],
                 resolverIndex)

\* A plausible slip: only the `required` predicate decides, implicit or not.
IsValidatableIgnoringImplicit(name, value) ==
    Fn(Required, value, None)

_isValidatable(name, value) ==
    IF IsImplicit(name) THEN TRUE
    ELSE Fn(Required, value, None)

\* Rules.make: an unregistered name is an error.
getRule(st, name) ==
    IF name \in Registered THEN st
    ELSE [st EXCEPT !.result.thrown = "UnknownRuleError"]

\* A plausible slip: the loop of check() stops at the first failure.
CheckDirectiveShortCircuit(st, d, inputValue) ==
    LET s0 == getRule(st, d.name)
    IN IF s0.result.thrown # "none" THEN s0
       ELSE IF ~_isValidatable(d.name, inputValue)
       THEN [s0 EXCEPT !.calls.skipped = Append(@, s0.run.k), !.run.k = @ + 1]
       ELSE LET s1 == [s0 EXCEPT !.calls.invoked = Append(@, s0.run.k)]
            IN IF ~Fn(d.name, inputValue, d.value)
               THEN [_addFailure([s1 EXCEPT !.calls.returnedFalse = @ + 1], d)
                        EXCEPT !.run.k = Len(Directives) + 1]
               ELSE [s1 EXCEPT !.run.k = @ + 1]

\* A plausible slip: the applicability test comes before the lookup.
CheckDirectiveApplicabilityFirst(st, d, inputValue) ==
    IF ~_isValidatable(d.name, inputValue)
    THEN [st EXCEPT !.calls.skipped = Append(@, st.run.k), !.run.k = @ + 1]
    ELSE LET s0 == getRule(st, d.name)
         IN IF s0.result.thrown # "none" THEN s0
            ELSE LET s1 == [s0 EXCEPT !.calls.invoked = Append(@, s0.run.k),
                                      !.run.k = @ + 1]
                 IN IF ~Fn(d.name, inputValue, d.value)
                    THEN _addFailure([s1 EXCEPT !.calls.returnedFalse = @ + 1], d)
                    ELSE s1

\* The body of the loops of check().
CheckDirective(st, d, inputValue) ==
    LET s0 == getRule(st, d.name)
    IN IF s0.result.thrown # "none" THEN s0
       ELSE IF ~_isValidatable(d.name, inputValue)
       THEN [s0 EXCEPT !.calls.skipped = Append(@, s0.run.k), !.run.k = @ + 1]
       ELSE LET s1 == [s0 EXCEPT !.calls.invoked = Append(@, s0.run.k),
                                 !.run.k = @ + 1]
            IN IF ~Fn(d.name, inputValue, d.value)
               THEN _addFailure([s1 EXCEPT !.calls.returnedFalse = @ + 1], d)
               ELSE s1

\* A plausible slip: the slot of a synchronous predicate is not resolved
\* within the invocation.
ValidateRuleSyncDeferred(st, d, inputValue, inline) ==
    LET rule == [attribute |-> d.attribute, name |-> d.name, value |-> d.value,
                 passes |-> Fn(d.name, inputValue, d.value),
                 inline |-> (IsAsync(d.name) /\ inline), state |-> "pending",
                 called |-> 0]
        s1 == [st EXCEPT !.resolvers = AsyncAdd(@, rule)]
        resolverIndex == Len(s1.resolvers)
    IN IF IsAsync(d.name) /\ inline THEN Callback(s1, resolverIndex) ELSE s1

\* validateRule(...)(): a slot is added, then the predicate is invoked.  A
\* synchronous predicate answers within the invocation; an asynchronous one
\* calls its completion callback within the invocation (inline) or later.
ValidateRule(st, d, inputValue, inline) ==
    LET rule == [attribute |-> d.attribute, name |-> d.name, value |-> d.value,
                 passes |-> Fn(d.name, inputValue, d.value),
                 inline |-> (~IsAsync(d.name) \/ inline), state |-> "pending",
                 called |-> 0]
        s1 == [st EXCEPT !.resolvers = AsyncAdd(@, rule)]
        resolverIndex == Len(s1.resolvers)
    IN IF ~IsAsync(d.name) \/ inline THEN Callback(s1, resolverIndex) ELSE s1

\* A plausible slip: firing is enabled inside the loop.
ScheduleDirectiveEnablesFiring(st, d, inputValue, inline) ==
    LET s0 == getRule(st, d.name)
    IN IF s0.result.thrown # "none" THEN s0
       ELSE IF ~_isValidatable(d.name, inputValue)
       THEN [s0 EXCEPT !.calls.skipped = Append(@, s0.run.k), !.run.k = @ + 1]
       ELSE ValidateRule([s0 EXCEPT !.calls.invoked = Append(@, s0.run.k),
                                    !.run.k = @ + 1, !.firing = TRUE],
                         d, inputValue, inline)

\* A plausible slip: the lookup that fails marks the scheduling as complete
\* and asks the coordinator to fire.
ScheduleDirectiveFiresOnThrow(st, d, inputValue, inline) ==
    LET s0 == getRule(st, d.name)
    IN IF s0.result.thrown # "none" THEN AsyncFire([s0 EXCEPT !.firing = TRUE])
       ELSE IF ~_isValidatable(d.name, inputValue)
       THEN [s0 EXCEPT !.calls.skipped = Append(@, s0.run.k), !.run.k = @ + 1]
       ELSE ValidateRule([s0 EXCEPT !.calls.invoked = Append(@, s0.run.k),
                                    !.run.k = @ + 1],
                         d, inputValue, inline)

\* A plausible slip: a directive is left out while an earlier predicate has
\* not answered.
ScheduleDirectiveAfterPending(st, d, inputValue, inline) ==
    LET s0 == getRule(st, d.name)
    IN IF s0.result.thrown # "none" THEN s0
       ELSE IF ~_isValidatable(d.name, inputValue) \/ ~IsAllResolved(s0.resolvers)
       THEN [s0 EXCEPT !.calls.skipped = Append(@, s0.run.k), !.run.k = @ + 1]
       ELSE ValidateRule([s0 EXCEPT !.calls.invoked = Append(@, s0.run.k),
                                    !.run.k = @ + 1],
                         d, inputValue, inline)

\* The body of the loops of checkAsync().
ScheduleDirective(st, d, inputValue, inline) ==
    LET s0 == getRule(st, d.name)
    IN IF s0.result.thrown # "none" THEN s0
       ELSE IF ~_isValidatable(d.name, inputValue)
       THEN [s0 EXCEPT !.calls.skipped = Append(@, s0.run.k), !.run.k = @ + 1]
       ELSE ValidateRule([s0 EXCEPT !.calls.invoked = Append(@, s0.run.k),
                                    !.run.k = @ + 1],
                         d, inputValue, inline)

\* A plausible slip: firing is enabled but the coordinator is not asked to fire.
FinishAsyncNoFire(st) ==
    [st EXCEPT !.firing = TRUE, !.result.value = "undefined"]

\* The end of checkAsync(): enableFiring, then fire.
FinishAsync(st) ==
    LET s1 == AsyncFire([st EXCEPT !.firing = TRUE])
    IN IF s1.result.thrown = "none" THEN [s1 EXCEPT !.result.value = "undefined"]
       ELSE s1

\* A plausible slip: the missing callback is not detected.
CheckAsyncNoThrow(hasCallback) ==
    IF hasAsync \/ hasCallback THEN "async" ELSE "sync"

\* _checkAsync: "throw", or the mode passes / fails run in.
_checkAsync(hasCallback) ==
    IF hasAsync /\ ~hasCallback THEN "throw"
    ELSE IF hasAsync \/ hasCallback THEN "async" ELSE "sync"

(***************************************************************************)
(* Actions.                                                                *)
(***************************************************************************)
\* new Validator(input, rules)
Construct ==
    /\ pc = "new"
    /\ rules' = _parseRules(rawRules)
    /\ hasAsync' = ParseHasAsync(rules')
    /\ errors' = NoErrors
    /\ errorCount' = 0
    /\ pc' = "idle"
    /\ UNCHANGED <<asyncRules, rawRules, input, run, resolvers, firing, calls, result, nruns>>

\* A call is made when no handler is running; calls on one validator are
\* made one after the other, the next one when the last run has no slot left
\* pending.
CanCall ==
    /\ pc = "idle"
    /\ nruns < MaxRuns
    /\ IsAllResolved(resolvers)

BeginCheck(entry) ==
    /\ pc' = "check"
    /\ run' = [entry |-> entry, mode |-> "sync", onPass |-> FALSE, onFail |-> FALSE, k |-> 1]
    /\ calls' = NewCalls(errors, errorCount, input)
    /\ result' = NoResult
    /\ nruns' = nruns + 1
    /\ UNCHANGED <<asyncRules, rawRules, input, rules, hasAsync, errors, errorCount, resolvers, firing>>

BeginCheckAsync(entry, passes, fails) ==
    /\ pc' = "checkAsync"
    /\ run' = [entry |-> entry, mode |-> "async", onPass |-> passes, onFail |-> fails, k |-> 1]
    /\ calls' = NewCalls(errors, errorCount, input)
    /\ result' = NoResult
    /\ resolvers' = <<>>
    /\ firing' = FALSE
    /\ nruns' = nruns + 1
    /\ UNCHANGED <<asyncRules, rawRules, input, rules, hasAsync, errors, errorCount>>

Throw(entry, passes, fails, what) ==
    /\ run' = [entry |-> entry, mode |-> "none", onPass |-> passes, onFail |-> fails, k |-> 0]
    /\ calls' = NewCalls(errors, errorCount, input)
    /\ result' = [value |-> "none", thrown |-> what]
    /\ nruns' = nruns + 1
    /\ UNCHANGED <<asyncRules, rawRules, input, rules, hasAsync, errors, errorCount, resolvers,
                   firing, pc>>

\* validator.check(), the synchronous mode: called on synchronous rules
Check ==
    /\ CanCall
    /\ ~hasAsync
    /\ BeginCheck("check")

\* validator.checkAsync(passes, fails)
CheckAsync ==
    /\ CanCall
    /\ BeginCheckAsync("checkAsync", TRUE, TRUE)

\* validator.passes(callback) and validator.passes()
Passes ==
    /\ CanCall
    /\ \E hasCallback \in BOOLEAN :
          LET async == _checkAsync(hasCallback)
          IN IF async = "throw"
             THEN Throw("passes", hasCallback, FALSE, "InvalidUsageError")
             ELSE IF async = "async"
             THEN BeginCheckAsync("passes", hasCallback, FALSE)
             ELSE BeginCheck("passes")

\* validator.fails(callback) and validator.fails()
Fails ==
    /\ CanCall
    /\ \E hasCallback \in BOOLEAN :
          LET async == _checkAsync(hasCallback)
          IN IF async = "throw"
             THEN Throw("fails", FALSE, hasCallback, "InvalidUsageError")
             ELSE IF async = "async"
             THEN BeginCheckAsync("fails", FALSE, hasCallback)
             ELSE BeginCheck("fails")

\* One iteration of the loops of check().
CheckStep ==
    /\ pc = "check"
    /\ run.k <= Len(Directives)
    /\ LET d == Directives[run.k]
           st == CheckDirective(St, d, input[d.attribute])
       IN /\ Commit(st)
          /\ pc' = IF st.result.thrown # "none" THEN "idle" ELSE pc
    /\ UNCHANGED <<asyncRules, rawRules, input, rules, hasAsync, nruns>>

\* return this.errorCount === 0, negated by fails()
CheckReturn ==
    /\ pc = "check"
    /\ run.k > Len(Directives)
    /\ LET passed == (errorCount = 0)
           value == IF run.entry = "fails" THEN ~passed ELSE passed
       IN result' = [result EXCEPT !.value = IF value THEN "true" ELSE "false"]
    /\ pc' = "idle"
    /\ UNCHANGED <<asyncRules, rawRules, input, rules, hasAsync, errors, errorCount, run,
                   resolvers, firing, calls, nruns>>

\* One iteration of the loops of checkAsync().
CheckAsyncStep ==
    /\ pc = "checkAsync"
    /\ run.k <= Len(Directives)
    /\ \E inline \in BOOLEAN :
          LET d == Directives[run.k]
              st == ScheduleDirective(St, d, input[d.attribute], inline)
          IN /\ inline \/ (d.name \in Registered /\ IsAsync(d.name)
                            /\ _isValidatable(d.name, input[d.attribute]))
             /\ Commit(st)
             /\ pc' = IF st.result.thrown # "none" THEN "idle" ELSE pc
    /\ UNCHANGED <<asyncRules, rawRules, input, rules, hasAsync, nruns>>

\* asyncResolvers.enableFiring(); asyncResolvers.fire(); return
CheckAsyncFinish ==
    /\ pc = "checkAsync"
    /\ run.k > Len(Directives)
    /\ Commit(FinishAsync(St))
    /\ pc' = "idle"
    /\ UNCHANGED <<asyncRules, rawRules, input, rules, hasAsync, nruns>>

\* An asynchronous predicate that answered nothing yet calls its completion
\* callback; this happens after checkAsync returned (one thread of control).
Complete ==
    /\ pc = "idle"
    /\ \E index \in 1..Len(resolvers) :
          /\ resolvers[index].state = "pending"
          /\ Commit(Callback(St, index))
    /\ UNCHANGED <<asyncRules, rawRules, input, rules, hasAsync, pc, nruns>>

\* An asynchronous predicate calls its completion callback once more.
CompleteAgain ==
    /\ pc = "idle"
    /\ \E index \in 1..Len(resolvers) :
          /\ ~resolvers[index].inline
          /\ resolvers[index].called >= 1
          /\ resolvers[index].called < 1 + MaxRepeats
          /\ Commit(Callback(St, index))
    /\ UNCHANGED <<asyncRules, rawRules, input, rules, hasAsync, pc, nruns>>

\* The caller changes one value of the input object between two calls.
SetInput ==
    /\ pc = "idle"
    /\ nruns > 0
    /\ nruns < MaxRuns
    /\ IsAllResolved(resolvers)
    /\ input = calls.input0
    /\ \E at \in Attributes, v \in Values :
          /\ v # input[at]
          /\ input' = [input EXCEPT ![at] = v]
    /\ UNCHANGED <<asyncRules, rawRules, rules, hasAsync, errors, errorCount, pc, run,
                   resolvers, firing, calls, result, nruns>>

(***************************************************************************)
(* The engine specification: validators over a catalogue of rule sets.     *)
(***************************************************************************)
GeTwo == AtLeast \o <<Colon, "2">>
SlowOne == Slow \o <<Colon, "1">>
SlowTwo == Slow \o <<Colon, "2">>

Str(s) == [isString |-> TRUE, str |-> s, list |-> <<>>]
List(l) == [isString |-> FALSE, str |-> <<>>, list |-> l]

SpecsA ==
    {Str(Required), Str(GeTwo), Str(SlowTwo),
     Str(Required \o <<Pipe>> \o GeTwo),
     Str(SlowTwo \o <<Pipe>> \o SlowOne),
     Str(GeTwo \o <<Pipe>> \o SlowTwo),
     Str(SlowOne \o <<Pipe>> \o Nope),
     Str(SlowTwo \o <<Pipe>> \o Slow),
     List(<<>>), List(<<SlowTwo, Required>>)}

SpecsB == {Str(SlowTwo), Str(Required \o <<Pipe>> \o GeTwo)}

Entry(at, e) == [attribute |-> at, isString |-> e.isString, str |-> e.str, list |-> e.list]

RuleSets ==
    {<<>>}
    \cup {<<Entry("a", ea)>> : ea \in SpecsA}
    \cup {<<Entry("a", ea), Entry("b", eb)>> : ea \in SpecsA, eb \in SpecsB}
    \cup {<<Entry("b", eb), Entry("a", ea)>> : ea \in {Str(SlowTwo)}, eb \in SpecsB}

InitCommon ==
    /\ rules = <<>>
    /\ hasAsync = FALSE
    /\ errors = NoErrors
    /\ errorCount = 0
    /\ pc = "new"
    /\ run = NoRun
    /\ resolvers = <<>>
    /\ firing = FALSE
    /\ calls = NewCalls(NoErrors, 0, input)
    /\ result = NoResult
    /\ nruns = 0
    /\ asyncRules = {Slow}

Init ==
    /\ rawRules \in RuleSets
    /\ input \in [Attributes -> Values]
    /\ InitCommon

Next ==
    \/ Construct
    \/ Check
    \/ CheckAsync
    \/ Passes
    \/ Fails
    \/ CheckStep
    \/ CheckReturn
    \/ CheckAsyncStep
    \/ CheckAsyncFinish
    \/ Complete
    \/ CompleteAgain
    \/ SetInput

Spec == Init /\ [][Next]_vars

(***************************************************************************)
(* The parser specification: validators over every rule string of at most  *)
(* MaxLen characters, and over the structured lists of such tokens.        *)
(***************************************************************************)
Chars == {"g", "s", Colon, Pipe}

RECURSIVE StringsUpTo(_)
StringsUpTo(n) ==
    IF n = 0 THEN {<<>>}
    ELSE LET shorter == StringsUpTo(n - 1)
         IN shorter \cup {Append(t, c) : t \in shorter, c \in Chars}

ParseRuleSets ==
    {<<Entry("a", Str(t))>> : t \in StringsUpTo(MaxLen)}
    \cup {<<Entry("a", List(<<t, u>>))>> : t \in StringsUpTo(2), u \in StringsUpTo(1)}
    \cup {<<Entry("b", Str(t)), Entry("a", Str(u))>> : t, u \in StringsUpTo(1)}

InitParse ==
    /\ rawRules \in ParseRuleSets
    /\ input \in [Attributes -> {Undefined, "2"}]
    /\ Len(rawRules) = 1 => input["b"] = Undefined
    /\ InitCommon

SpecParse == InitParse /\ [][Next]_vars

(***************************************************************************)
(* Properties.                                                             *)
(***************************************************************************)
Range(q) == {q[i] : i \in 1..Len(q)}

FailedSlots == {i \in 1..Len(resolvers) : resolvers[i].state = "failed"}

MessagesAdded == TotalMessages(errors) - TotalMessages(calls.errors0)

\* The run of checkAsync went through its whole traversal and returned.
Scheduled == run.mode = "async" /\ pc = "idle" /\ result.thrown # "UnknownRuleError"

\* C1: in a checkAsync run the terminal handler fires at most once, never while
\* the traversal is still scheduling directives, only when firing is enabled and
\* every slot has resolved; once the traversal is over and every slot has
\* resolved it has fired exactly once.
C1_TerminalFiresOnce ==
    run.mode = "async" =>
        /\ calls.resolvedAll <= 1
        /\ pc = "checkAsync" => (calls.resolvedAll = 0 /\ ~firing)
        /\ calls.resolvedAll = 1 => (firing /\ IsAllResolved(resolvers) /\ pc = "idle")
        /\ (Scheduled /\ IsAllResolved(resolvers)) => calls.resolvedAll = 1
        /\ (Scheduled /\ ~IsAllResolved(resolvers)) => calls.resolvedAll = 0

\* A run in which one predicate answered inside its invocation, another one
\* later, and the terminal handler has fired.
C1_Witness ==
    /\ run.mode = "async"
    /\ calls.resolvedAll = 1
    /\ \E i, j \in 1..Len(resolvers) :
          /\ i < j
          /\ IsAsync(resolvers[i].name) /\ resolvers[i].inline
          /\ IsAsync(resolvers[j].name) /\ ~resolvers[j].inline

\* C2: checkAsync(onPass, onFail) invokes no callback before the run completes,
\* and when it completes exactly one: onPass iff no predicate of the run failed.
C2_ExactlyOneCallback ==
    run.entry = "checkAsync" =>
        /\ calls.resolvedAll = 0 => (calls.onPass = 0 /\ calls.onFail = 0)
        /\ calls.resolvedAll = 1 =>
              /\ calls.onPass + calls.onFail = 1
              /\ calls.onPass = 1 <=> calls.returnedFalse = 0
              /\ result.thrown = "none"

\* A completed run with one passing and one failing predicate: onFail alone.
C2_Witness ==
    /\ run.entry = "checkAsync"
    /\ calls.onFail = 1
    /\ calls.onPass = 0
    /\ \E i, j \in 1..Len(resolvers) :
          resolvers[i].state = "passed" /\ resolvers[j].state = "failed"

\* The messages an attribute received since the run began.
NewMessages(at) == SubSeq(errors[at], Len(calls.errors0[at]) + 1, Len(errors[at]))

\* C3: at every moment of an asynchronous run the per-failure handler has been
\* invoked once per slot that resolved as failed, each invocation has added one
\* message (the counter and the collection grow with the failed slots, not at
\* the end), and the messages added are those of the failed slots; on a fresh
\* validator the collection holds exactly those k messages.
C3_OneMessagePerFailure ==
    run.mode = "async" =>
        /\ calls.failsOne = Cardinality(FailedSlots)
        /\ calls.returnedFalse = Cardinality(FailedSlots)
        /\ errorCount = calls.errorCount0 + calls.failsOne
        /\ MessagesAdded = calls.failsOne
        /\ \A at \in Attributes :
              /\ SubSeq(errors[at], 1, Len(calls.errors0[at])) = calls.errors0[at]
              /\ Len(NewMessages(at)) =
                    Cardinality({i \in FailedSlots : resolvers[i].attribute = at})
              /\ Range(NewMessages(at)) =
                    {[attribute |-> at, name |-> resolvers[i].name,
                      value |-> resolvers[i].value] :
                        i \in {j \in FailedSlots : resolvers[j].attribute = at}}
        /\ nruns = 1 => TotalMessages(errors) = Cardinality(FailedSlots)

\* Three asynchronous directives over two attributes, one failed and two
\* passed: one failure handled, fails() called, one message.
C3_Witness ==
    /\ run.entry = "checkAsync"
    /\ nruns = 1
    /\ Len(resolvers) = 3
    /\ \A i \in 1..3 : IsAsync(resolvers[i].name)
    /\ {resolvers[i].attribute : i \in 1..3} = Attributes
    /\ Cardinality(FailedSlots) = 1
    /\ calls.failsOne = 1
    /\ calls.resolvedAll = 1
    /\ calls.onFail = 1
    /\ calls.onPass = 0
    /\ TotalMessages(errors) = 1

\* The synchronous call returned a boolean.
Returned == run.mode = "sync" /\ pc = "idle" /\ result.value \in {"true", "false"}

SaidPasses == IF run.entry = "fails" THEN result.value = "false" ELSE result.value = "true"

\* C4: every call of check() / passes() / fails() on synchronous rules, the
\* first one or a repeated one, says "passes" iff no predicate returned false
\* for an applicable directive during that call.
C4_VerdictOfThisCall ==
    Returned => (SaidPasses <=> calls.returnedFalse = 0)

\* The directives that apply to the values the run read, and those among them
\* whose predicate rejects the value.
Applies(d, inp) == IsImplicit(d.name) \/ Fn(Required, inp[d.attribute], None)

FailingApplicable(inp) ==
    {k \in 1..Len(Directives) :
        /\ Applies(Directives[k], inp)
        /\ ~Fn(Directives[k].name, inp[Directives[k].attribute], Directives[k].value)}

\* C5: check() visits every directive; the messages it has added, and the
\* failures it has counted, are one per applicable directive whose predicate
\* returned false.
C5_NoShortCircuit ==
    run.mode = "sync" =>
        /\ MessagesAdded = calls.returnedFalse
        /\ errorCount = calls.errorCount0 + calls.returnedFalse
        /\ (pc = "idle" /\ result.thrown = "none") =>
              /\ Len(calls.invoked) + Len(calls.skipped) = Len(Directives)
              /\ MessagesAdded = Cardinality(FailingApplicable(calls.input0))

\* A check() in which a directive failed and a later one failed too.
C5_Witness ==
    /\ Returned
    /\ MessagesAdded >= 2
    /\ \E at \in Attributes : Len(NewMessages(at)) = 1

\* C6: in both modes a visited directive is executed iff its rule is implicit
\* or `required` accepts the value; a skipped directive adds no message, does
\* not change the counter and registers no slot.
C6_Applicability ==
    run.mode \in {"sync", "async"} =>
        /\ \A k \in Range(calls.invoked) : Applies(Directives[k], calls.input0)
        /\ \A k \in Range(calls.skipped) : ~Applies(Directives[k], calls.input0)
        /\ Range(calls.invoked) \cup Range(calls.skipped) = 1..(run.k - 1)
        /\ MessagesAdded = calls.returnedFalse
        /\ errorCount = calls.errorCount0 + calls.returnedFalse
        /\ calls.returnedFalse <= Len(calls.invoked)
        /\ run.mode = "async" => Len(resolvers) = Len(calls.invoked)

\* An asynchronous run over an absent value: the non-implicit rule was skipped,
\* the implicit one ran (and failed).
C6_Witness ==
    /\ run.mode = "async"
    /\ pc = "idle"
    /\ \E k \in Range(calls.skipped) : ~IsImplicit(Directives[k].name)
    /\ \E k \in Range(calls.invoked) :
          /\ IsImplicit(Directives[k].name)
          /\ calls.input0[Directives[k].attribute] = Undefined
    /\ Len(resolvers) = 1
    /\ MessagesAdded = 1

AsyncDirectives == {k \in 1..Len(Directives) : IsAsync(Directives[k].name)}

\* C7: with an asynchronous directive in the rule set, passes() / fails()
\* without a callback throws before any rule is looked up: the call is over, no
\* predicate was invoked or skipped, the collection and the counter are as the
\* call found them.
C7_MissingCallbackThrows ==
    (/\ run.entry \in {"passes", "fails"}
     /\ ~run.onPass
     /\ ~run.onFail
     /\ AsyncDirectives # {}) =>
        /\ result.thrown = "InvalidUsageError"
        /\ result.value = "none"
        /\ pc = "idle"
        /\ run.mode = "none"
        /\ calls.invoked = <<>>
        /\ calls.skipped = <<>>
        /\ errors = calls.errors0
        /\ errorCount = calls.errorCount0

\* The throw on a validator whose earlier run had recorded a failure.
C7_Witness ==
    /\ result.thrown = "InvalidUsageError"
    /\ nruns = 2
    /\ errorCount > 0
    /\ AsyncDirectives # {}

\* C8: a token with a colon is split at its first colon only: the name has no
\* colon and name, ":" and the argument string give the token back (further
\* colons and an empty remainder are kept); a token without a colon is its own
\* name and has no argument string.
C8_SplitOnFirstColon ==
    pc # "new" =>
        \A i \in 1..Len(rules) :
            LET tokens == RulesArrayOf(rawRules[i])
                parsed == rules[i].attributeRules
            IN /\ Len(parsed) = Len(tokens)
               /\ \A j \in 1..Len(tokens) :
                     IF Colon \in Range(tokens[j])
                     THEN /\ parsed[j].value # None
                          /\ Colon \notin Range(parsed[j].name)
                          /\ parsed[j].name \o <<Colon>> \o parsed[j].value[1] = tokens[j]
                     ELSE /\ parsed[j].name = tokens[j]
                          /\ parsed[j].value = None

\* A parsed directive whose argument string holds a colon, and one whose
\* argument string is empty.
C8_Witness ==
    /\ pc # "new"
    /\ \E i \in 1..Len(rules) :
          \E j, k \in 1..Len(rules[i].attributeRules) :
              /\ rules[i].attributeRules[j].value # None
              /\ Colon \in Range(rules[i].attributeRules[j].value[1])
              /\ rules[i].attributeRules[k].value = Some(<<>>)

\* A directive written back as a token.
Unparse(d) == IF d.value = None THEN d.name ELSE d.name \o <<Colon>> \o d.value[1]

TokenName(t) ==
    IF IndexOf(t, Colon) = 0 THEN t ELSE SubSeq(t, 1, IndexOf(t, Colon) - 1)

CountChar(t, c) == Cardinality({i \in 1..Len(t) : t[i] = c})

\* The tokens of the rule specification, attribute by attribute, in its order.
RECURSIVE SpecTokens(_)
SpecTokens(rs) ==
    IF Len(rs) = 0 THEN <<>>
    ELSE LET tokens == RulesArrayOf(rs[1])
         IN [j \in 1..Len(tokens) |-> [attribute |-> rs[1].attribute, token |-> tokens[j]]]
            \o SpecTokens(Tail(rs))

TokenApplies(e, inp) ==
    \/ TokenName(e.token) \notin Registered
    \/ Applies([attribute |-> e.attribute, name |-> TokenName(e.token)], inp)

ExpectedInvocations(inp) ==
    SelectSeq(SpecTokens(rawRules), LAMBDA e : TokenApplies(e, inp))

InvokedTokens ==
    [n \in 1..Len(calls.invoked) |->
        [attribute |-> Directives[calls.invoked[n]].attribute,
         token |-> Unparse(Directives[calls.invoked[n]])]]

IsPrefix(p, q) == Len(p) <= Len(q) /\ SubSeq(q, 1, Len(p)) = p

\* C9: the parsed rules keep the attributes in the specification's order and
\* hold, per attribute, one directive per token in the tokens' order; a run
\* invokes the predicates of the applicable tokens in the specification's
\* order, attribute by attribute.
C9_OrderPreserved ==
    pc # "new" =>
        /\ Len(rules) = Len(rawRules)
        /\ \A i \in 1..Len(rules) :
              LET parsed == rules[i].attributeRules
                  unparsed == [j \in 1..Len(parsed) |-> Unparse(parsed[j])]
              IN /\ rules[i].attribute = rawRules[i].attribute
                 /\ IF rawRules[i].isString
                    THEN /\ Len(parsed) = CountChar(rawRules[i].str, Pipe) + 1
                         /\ Join(unparsed, Pipe) = rawRules[i].str
                    ELSE unparsed = rawRules[i].list
        /\ run.mode \in {"sync", "async"} =>
              /\ IsPrefix(InvokedTokens, ExpectedInvocations(calls.input0))
              /\ (pc = "idle" /\ result.thrown # "UnknownRuleError") =>
                    InvokedTokens = ExpectedInvocations(calls.input0)

\* A completed run that invoked two different directives of one attribute.
C9_Witness ==
    /\ pc = "idle"
    /\ run.mode = "async"
    /\ Len(rules) = 1
    /\ Len(InvokedTokens) = 2
    /\ InvokedTokens[1].token # InvokedTokens[2].token
    /\ Directives[calls.invoked[1]].value # None

\* C10: a checkAsync run that registered no slot has fired its terminal handler
\* once, with the pass outcome, when checkAsync is over.
C10_ZeroSlotsFire ==
    (Scheduled /\ Len(resolvers) = 0) =>
        /\ calls.resolvedAll = 1
        /\ calls.onFail = 0
        /\ run.onPass => (calls.onPass = 1 /\ result.thrown = "none")
        /\ ~run.onPass => (calls.onPass = 0 /\ result.thrown = "TypeError")

\* A run whose directives were all skipped, and whose onPass was called.
C10_Witness ==
    /\ Scheduled
    /\ Len(resolvers) = 0
    /\ Len(calls.skipped) >= 1
    /\ calls.resolvedAll = 1
    /\ calls.onPass = 1

CalledAgain == {i \in 1..Len(resolvers) : resolvers[i].called >= 2}

\* C11: when a completion callback has been called more than once, its slot is
\* still counted as resolved once: the per-failure handler ran once per failed
\* slot, one message per failed slot was added, and the terminal handler has
\* fired at most once and only with every slot resolved.
C11_DoubleResolutionGuard ==
    (run.mode = "async" /\ CalledAgain # {}) =>
        /\ \A i \in CalledAgain :
              Cardinality({n \in 1..Len(calls.order) : calls.order[n] = i}) = 1
        /\ calls.failsOne = Cardinality(FailedSlots)
        /\ MessagesAdded = Cardinality(FailedSlots)
        /\ errorCount = calls.errorCount0 + Cardinality(FailedSlots)
        /\ calls.resolvedAll <= 1
        /\ calls.resolvedAll = 1 => IsAllResolved(resolvers)
        /\ ~IsAllResolved(resolvers) => calls.resolvedAll = 0
        /\ calls.onPass + calls.onFail <= 1

\* The callback of a failed slot was called twice while another slot is
\* still pending.
C11_Witness ==
    /\ run.mode = "async"
    /\ \E i \in CalledAgain : resolvers[i].state = "failed"
    /\ ~IsAllResolved(resolvers)
    /\ MessagesAdded = 1
    /\ calls.resolvedAll = 0

\* The callback of the last slot to resolve was called twice: the terminal
\* handler fired once.
C11_WitnessFired ==
    /\ run.mode = "async"
    /\ CalledAgain # {}
    /\ calls.resolvedAll = 1

UnknownAt == {k \in 1..Len(Directives) : Directives[k].name \notin Registered}

\* C12: a run stops with UnknownRuleError at the first directive whose rule is
\* not registered, whether or not the attribute has a value: every directive
\* before it was looked up, none after it is executed, and a run over such a
\* rule set never ends otherwise.
C12_UnknownRuleThrows ==
    run.mode \in {"sync", "async"} =>
        /\ \A k \in UnknownAt : run.k <= k
        /\ result.thrown = "UnknownRuleError" =>
              /\ pc = "idle"
              /\ run.k \in UnknownAt
              /\ Range(calls.invoked) \cup Range(calls.skipped) = 1..(run.k - 1)
        /\ (pc = "idle" /\ UnknownAt # {}) => result.thrown = "UnknownRuleError"

\* The error raised for an absent value, after an earlier directive and before
\* a later one.
C12_Witness ==
    /\ result.thrown = "UnknownRuleError"
    /\ run.k > 1
    /\ run.k < Len(Directives)
    /\ calls.input0[Directives[run.k].attribute] = Undefined

(***************************************************************************)
(* The registry specification: rules are registered again, as synchronous  *)
(* or as asynchronous ones, before and after the validator is constructed  *)
(* and before its first call.                                              *)
(***************************************************************************)
\* Validator.register(name, fn, message): the rule is a synchronous one.
Register ==
    /\ pc \in {"new", "idle"}
    /\ nruns = 0
    /\ \E name \in {AtLeast, Slow} :
          /\ name \in asyncRules
          /\ asyncRules' = asyncRules \ {name}
    /\ UNCHANGED <<rawRules, input, rules, hasAsync, errors, errorCount, pc, run,
                   resolvers, firing, calls, result, nruns>>

\* Validator.registerAsync(name, fn, message): the rule is an asynchronous one.
RegisterAsync ==
    /\ pc \in {"new", "idle"}
    /\ nruns = 0
    /\ \E name \in {AtLeast, Slow} :
          /\ name \notin asyncRules
          /\ asyncRules' = asyncRules \cup {name}
    /\ UNCHANGED <<rawRules, input, rules, hasAsync, errors, errorCount, pc, run,
                   resolvers, firing, calls, result, nruns>>

RegistryRuleSets ==
    {<<Entry("a", Str(GeTwo))>>,
     <<Entry("a", Str(SlowTwo))>>,
     <<Entry("a", Str(Required \o <<Pipe>> \o GeTwo))>>,
     <<Entry("a", Str(GeTwo)), Entry("b", Str(SlowTwo))>>}

InitRegistry ==
    /\ rawRules \in RegistryRuleSets
    /\ input \in [Attributes -> Values]
    /\ InitCommon

NextRegistry ==
    \/ Next
    \/ Register
    \/ RegisterAsync

SpecRegistry == InitRegistry /\ [][NextRegistry]_vars

(***************************************************************************)
(* The liveness specification: a handler that has started runs to its end, *)
(* and every predicate that was handed a completion callback calls it.     *)
(***************************************************************************)
LiveRuleSets ==
    {<<>>,
     <<Entry("a", Str(SlowTwo \o <<Pipe>> \o SlowOne))>>,
     <<Entry("a", Str(SlowOne \o <<Pipe>> \o Nope))>>,
     <<Entry("a", Str(Required \o <<Pipe>> \o GeTwo))>>,
     <<Entry("a", List(<<SlowTwo, Required>>))>>}

InitLive ==
    /\ rawRules \in LiveRuleSets
    /\ input \in [Attributes -> {Undefined, "1"}]
    /\ input["b"] = Undefined
    /\ InitCommon

Fairness ==
    /\ WF_vars(Construct)
    /\ WF_vars(CheckStep)
    /\ WF_vars(CheckReturn)
    /\ WF_vars(CheckAsyncStep)
    /\ WF_vars(CheckAsyncFinish)
    /\ WF_vars(Complete)

SpecLive == InitLive /\ [][Next]_vars /\ Fairness

FiredOnlyWhenAllCalled ==
    (run.mode = "async" /\ calls.resolvedAll >= 1) =>
        \A i \in 1..Len(resolvers) : resolvers[i].called >= 1

\* C13 as stated: every asynchronous run whose predicates all call their
\* completion callbacks fires its terminal handler, and a run with a predicate
\* that never calls it does not.
C13_EveryRunFires ==
    /\ []FiredOnlyWhenAllCalled
    /\ \A n \in 1..MaxRuns :
          (nruns = n /\ pc = "checkAsync") ~> (nruns = n /\ calls.resolvedAll = 1)

\* C13, amended: an asynchronous run whose traversal is not ended by an
\* UnknownRuleError, and whose predicates all call their completion callbacks,
\* fires its terminal handler; the terminal handler has never fired while a
\* scheduled predicate has not called its completion callback.
C13_CompletedRunFires ==
    /\ []FiredOnlyWhenAllCalled
    /\ \A n \in 1..MaxRuns :
          (nruns = n /\ pc = "checkAsync")
              ~> (nruns = n /\ (calls.resolvedAll = 1 \/ result.thrown = "UnknownRuleError"))

\* The terminal handler fired after two predicates answered later, the second
\* one first.
C13_Witness ==
    /\ run.mode = "async"
    /\ calls.resolvedAll = 1
    /\ Len(resolvers) = 2
    /\ \A i \in 1..2 : ~resolvers[i].inline
    /\ calls.order = <<2, 1>>

ApplicableUpTo(n, inp) == {k \in 1..n : Applies(Directives[k], inp)}

Increasing(q) == \A m, n \in 1..Len(q) : m < n => q[m] < q[n]

FailureMessages(at, inp) ==
    {Render(Directives[k]) :
        k \in {j \in FailingApplicable(inp) : Directives[j].attribute = at}}

\* C14: an asynchronous run invokes the applicable directives in the order of
\* the specification, all of them by the time checkAsync returns, whatever
\* slots are still pending then; when the terminal handler fires, in whatever
\* order the predicates answered, the verdict is "pass" iff no applicable
\* directive rejects the input, and each attribute has received the messages
\* of its rejecting applicable directives.
C14_AllInvokedOrderFree ==
    run.mode = "async" =>
        /\ Increasing(calls.invoked)
        /\ Range(calls.invoked) = ApplicableUpTo(run.k - 1, calls.input0)
        /\ Scheduled => Range(calls.invoked) = ApplicableUpTo(Len(Directives), calls.input0)
        /\ calls.resolvedAll = 1 =>
              /\ calls.allPassed = "true" <=> FailingApplicable(calls.input0) = {}
              /\ \A at \in Attributes :
                    Range(NewMessages(at)) = FailureMessages(at, calls.input0)

\* Three predicates were invoked and none had answered when checkAsync
\* returned; they answered last one first, and the run failed.
C14_Witness ==
    /\ Scheduled
    /\ Len(calls.invoked) = 3
    /\ \A i \in 1..3 : ~resolvers[i].inline
    /\ calls.order = <<3, 2, 1>>
    /\ calls.resolvedAll = 1
    /\ calls.allPassed = "false"

\* The messages of the failed slots of an attribute, in the order in which the
\* slots resolved.
MessagesInCompletionOrder(at) ==
    LET sel == SelectSeq(calls.order,
                         LAMBDA i : /\ resolvers[i].state = "failed"
                                    /\ resolvers[i].attribute = at)
    IN [n \in 1..Len(sel) |-> Render(resolvers[sel[n]])]

\* C15: at every moment of an asynchronous run, the messages an attribute has
\* received since the run began are those of its failed slots in the order in
\* which the slots resolved, after the messages the attribute held before.
C15_CompletionOrder ==
    run.mode = "async" =>
        \A at \in Attributes :
            errors[at] = calls.errors0[at] \o MessagesInCompletionOrder(at)

\* Two failing predicates of one attribute answered second one first: the
\* message of the second directive precedes the message of the first.
C15_Witness ==
    /\ run.mode = "async"
    /\ Len(resolvers) = 2
    /\ calls.order = <<2, 1>>
    /\ NewMessages("a") = <<Render(resolvers[2]), Render(resolvers[1])>>
    /\ Render(resolvers[1]) # Render(resolvers[2])

\* C16: whatever rules were registered again before the call, passes() /
\* fails() without a callback on a validator with a directive whose rule is
\* asynchronous in the registry throws InvalidUsageError, and no asynchronous
\* predicate is invoked by the loop of check().
C16_NeverDegrades ==
    (/\ run.entry \in {"passes", "fails"}
     /\ ~run.onPass
     /\ ~run.onFail
     /\ AsyncDirectives # {}) =>
        /\ result.thrown = "InvalidUsageError"
        /\ run.mode # "sync"
        /\ \A k \in Range(calls.invoked) : ~IsAsync(Directives[k].name)

\* check() on a validator as the constructor leaves it, over the values inp.
FreshCheck(inp) ==
    [resolvers |-> <<>>, firing |-> FALSE, errors |-> NoErrors, errorCount |-> 0,
     calls |-> NewCalls(NoErrors, 0, inp), result |-> NoResult,
     run |-> [entry |-> "check", mode |-> "sync", onPass |-> FALSE, onFail |-> FALSE,
              k |-> 1]]

RECURSIVE RunCheck(_, _)
RunCheck(st, inp) ==
    IF st.result.thrown # "none" \/ st.run.k > Len(Directives) THEN st
    ELSE RunCheck(CheckDirective(st, Directives[st.run.k],
                                 inp[Directives[st.run.k].attribute]), inp)

\* C17: on rules that are all synchronous, the first run of a validator in
\* asynchronous mode has, when checkAsync is over, executed and skipped the
\* directives check() executes and skips, holds the error collection and the
\* counter check() produces, has fired its terminal handler already, every
\* slot having resolved within its invocation, and with the verdict check()
\* returns.
C17_SyncOnlyEquivalence ==
    (run.mode = "async" /\ nruns = 1 /\ AsyncDirectives = {} /\ pc = "idle") =>
        LET c == RunCheck(FreshCheck(calls.input0), calls.input0)
        IN /\ calls.invoked = c.calls.invoked
           /\ calls.skipped = c.calls.skipped
           /\ errors = c.errors
           /\ errorCount = c.errorCount
           /\ calls.returnedFalse = c.calls.returnedFalse
           /\ (result.thrown = "UnknownRuleError") <=> (c.result.thrown = "UnknownRuleError")
           /\ c.result.thrown = "none" =>
                 /\ calls.resolvedAll = 1
                 /\ \A i \in 1..Len(resolvers) : resolvers[i].inline
                 /\ calls.order = [i \in 1..Len(resolvers) |-> i]
                 /\ (calls.allPassed = "true") <=> (c.errorCount = 0)

\* Synchronous directives over two attributes, some executed and one skipped,
\* a failure recorded for each attribute; onFail was called.
C17_Witness ==
    /\ run.mode = "async"
    /\ nruns = 1
    /\ AsyncDirectives = {}
    /\ pc = "idle"
    /\ Len(calls.invoked) >= 2
    /\ Len(calls.skipped) >= 1
    /\ \A at \in Attributes : Len(errors[at]) = 1
    /\ calls.allPassed = "false"
    /\ calls.onFail = 1

\* C18: when the run of passes(callback) / fails(callback) is complete, the
\* callback has been called once if the outcome is the one the entry point
\* asks about and not at all otherwise, and no error was raised in either
\* case.
C18_OnlyMatchingCallback ==
    (/\ run.entry \in {"passes", "fails"}
     /\ run.mode = "async"
     /\ calls.resolvedAll = 1) =>
        LET matching == IF run.entry = "passes" THEN calls.allPassed = "true"
                        ELSE calls.allPassed = "false"
        IN /\ calls.onPass + calls.onFail = (IF matching THEN 1 ELSE 0)
           /\ result.thrown = "none"

CounterMatchesCollection == errorCount = TotalMessages(errors)

\* What a step may do to the collection and the counter: nothing, or one
\* message appended to one attribute's list, the counter advanced by one, for
\* one predicate that returned false.
RecordsAtMostOneFailure ==
    /\ \A at \in Attributes : IsPrefix(errors[at], errors'[at])
    /\ TotalMessages(errors') - TotalMessages(errors) = errorCount' - errorCount
    /\ errorCount' - errorCount \in {0, 1}
    /\ errorCount' = errorCount + 1 =>
          /\ calls'.returnedFalse = calls.returnedFalse + 1
          /\ run'.mode = run.mode

\* C19: in every reachable state errorCount is the number of messages in the
\* collection; every step leaves both alone or records one failure, appending
\* one message and advancing the counter by one; no step removes or moves a
\* recorded message.
C19_CounterIsCollectionSize ==
    /\ []CounterMatchesCollection
    /\ [][RecordsAtMostOneFailure]_vars

\* The second run of a validator, its first one having recorded a failure,
\* has recorded another one while a slot is still pending.
C19_Witness ==
    /\ nruns = 2
    /\ calls.errorCount0 >= 1
    /\ errorCount > calls.errorCount0
    /\ run.mode = "async"
    /\ ~IsAllResolved(resolvers)

\* C20: once checkAsync has thrown UnknownRuleError, firing is never enabled:
\* the terminal handler does not fire and neither callback is called, whatever
\* the predicates scheduled before the error do afterwards.
C20_NoCallbackAfterUnknownRule ==
    (run.mode = "async" /\ result.thrown = "UnknownRuleError") =>
        /\ ~firing
        /\ calls.resolvedAll = 0
        /\ calls.onPass = 0
        /\ calls.onFail = 0

\* The predicate scheduled before the unknown rule answered after the throw,
\* and every slot is resolved.
C20_Witness ==
    /\ run.mode = "async"
    /\ result.thrown = "UnknownRuleError"
    /\ Len(resolvers) >= 1
    /\ \A i \in 1..Len(resolvers) : ~resolvers[i].inline /\ resolvers[i].called >= 1
    /\ IsAllResolved(resolvers)

====
